---- MODULE Spec2Model ----
(***************************************************************************)
(* Order lifecycle of the shop: the order store (web/service/shop.go) and  *)
(* the approve / reject handlers of ShopController.  Every database        *)
(* statement is one atomic step; approveOrder is a sequence of steps that  *)
(* other requests interleave with.                                         *)
(***************************************************************************)
EXTENDS Integers, Sequences, FiniteSets, TLC

\* ---- bounds ----
MaxOrders == 1
MaxClock == 1

\* ---- status constants (shop.go:12-17) ----
OrderStatusPendingReceipt == "PENDING_RECEIPT"
OrderStatusPendingReview == "PENDING_REVIEW"
OrderStatusApproved == "APPROVED"
OrderStatusRejected == "REJECTED"

Statuses == {OrderStatusPendingReceipt, OrderStatusPendingReview, OrderStatusApproved, OrderStatusRejected}

\* ---- input domains ----
\* the approve requests in flight; each runs approveOrder once
Approvers == {"a1", "a2"}
Customers == {"tg1"}
Receipts == {<<"r1", "f1">>, <<"r2", "f2">>}
ReqIds == 1..(MaxOrders + 1)

\* Identity strings are written as tuples (<<"email", order, n>>); the empty
\* string of an identity column is the empty tuple.
EmptyStr == <<>>

\* orders    the shop_orders table, indexed by primary key 1..Len(orders)
\* now       the value time.Now() returns
\* pc        where each approve request stands in approveOrder
\* cur       approveOrder's local order, ident its email, clientId, subId
\* saveErr   whether approveOrder's SetOrderProvisioned returned an error
\* reply     the response most recently written by a handler
\* accounts  number of accounts the Provisioner has created, per order
\* notifs    the fulfillment notifications requested so far
VARIABLES orders, now, pc, cur, ident, saveErr, reply, accounts, notifs

\* shopInbounds  the shop_inbounds override table, indexed by primary key
\* setReq        each SetInboundEnabled request: position and locals
\* lastSet       per inbound, the value of the last SetInboundEnabled that
\*               returned without error ("none" before the first)
VARIABLES shopInbounds, setReq, lastSet

orderVars == <<orders, now, pc, cur, ident, saveErr, reply, accounts, notifs>>

inboundVars == <<shopInbounds, setReq, lastSet>>

\* settings  the shop settings read through settingService
\* quote     the last ValidateCustomOrder / CalculateCustomPrice call and
\*           what it returned
\* served    the last response of GET /receipt/:id
VARIABLES settings, quote, served

customVars == <<settings, quote>>

vars == <<orderVars, inboundVars, customVars, served>>

\* ---- model.ShopOrder ----
\* The columns the lifecycle reads or rewrites.  created_at is written once
\* by CreateOrder and by no other statement, and is not carried.
\* A new order is PENDING_RECEIPT with no receipt and no identity.
NewOrder(id, tg) ==
    [id |-> id, telegramId |-> tg, status |-> OrderStatusPendingReceipt,
     receiptPath |-> "", receiptFileId |-> "",
     clientEmail |-> EmptyStr, clientId |-> EmptyStr, clientSubId |-> EmptyStr,
     updatedAt |-> 0]

\* the fields of the fetched order that approveOrder still reads after the
\* status check: Id and TelegramId
Snapshot(order) == [id |-> order.id, telegramId |-> order.telegramId]

NoOrder == [id |-> 0, telegramId |-> ""]

NoIdent == [email |-> EmptyStr, clientId |-> EmptyStr, subId |-> EmptyStr]

NoResp == [msg |-> "", err |-> FALSE]

\* jsonMsg(c, msg, err): the message and whether an error was passed.
JsonMsg(msg, err) == [msg |-> msg, err |-> err]

\* ---- ShopService (shop.go) ----
\* db.First(order, id): found iff a row with that primary key exists.
HasOrder(os, id) == id \in DOMAIN os

GetOrder(os, id) == os[id]

\* CreateOrder: stamps the order with the current time and inserts it under
\* the next auto-increment id.
CreateOrder(os, order, t) ==
    Append(os, [order EXCEPT !.updatedAt = t])

\* variant: the receipt is accepted only while the order awaits one
UpdateOrderReceipt_Guarded(os, id, receiptPath, receiptFileId, t) ==
    [o \in DOMAIN os |->
        IF o = id /\ os[o].status = OrderStatusPendingReceipt
        THEN [os[o] EXCEPT !.receiptPath = receiptPath, !.receiptFileId = receiptFileId,
                           !.status = OrderStatusPendingReview, !.updatedAt = t]
        ELSE os[o]]

\* Updates(map) WHERE id = ?: patches the listed columns of the matching
\* rows (possibly none) and reports no error when none matches.
UpdateOrderReceipt(os, id, receiptPath, receiptFileId, t) ==
    [o \in DOMAIN os |->
        IF o = id
        THEN [os[o] EXCEPT !.receiptPath = receiptPath, !.receiptFileId = receiptFileId,
                           !.status = OrderStatusPendingReview, !.updatedAt = t]
        ELSE os[o]]

UpdateOrderStatus(os, id, status, note, t) ==
    [o \in DOMAIN os |->
        IF o = id
        THEN [os[o] EXCEPT !.status = status, !.updatedAt = t]
        ELSE os[o]]

\* variant: the subscription id column is left out of the update
SetOrderProvisioned_NoSubId(os, id, email, clientId, subId, t) ==
    [o \in DOMAIN os |->
        IF o = id
        THEN [os[o] EXCEPT !.clientEmail = email, !.clientId = clientId,
                           !.status = OrderStatusApproved, !.updatedAt = t]
        ELSE os[o]]

SetOrderProvisioned(os, id, email, clientId, subId, t) ==
    [o \in DOMAIN os |->
        IF o = id
        THEN [os[o] EXCEPT !.clientEmail = email, !.clientId = clientId, !.clientSubId = subId,
                           !.status = OrderStatusApproved, !.updatedAt = t]
        ELSE os[o]]

\* ---- collaborators ----
\* Provisioner: the n-th account created for an order has a fresh, non-empty
\* identity.
ProvisionOrder(order, n) ==
    [email |-> <<"email", order.id, n>>, clientId |-> <<"cid", order.id, n>>, subId |-> <<"sub", order.id, n>>]

\* ---- ShopController.approveOrder (part_000:94-124) ----
\* variant: only a rejected order is refused
IsReadyForApproval_NotRejected(status) == status # OrderStatusRejected

\* the status precondition of line 106
IsReadyForApproval(status) == status = OrderStatusPendingReview

\* jsonMsg(c, ...) followed by return: the request ends with response r
Finish(p, r) ==
    /\ pc' = [pc EXCEPT ![p] = "done"]
    /\ cur' = [cur EXCEPT ![p] = NoOrder]
    /\ ident' = [ident EXCEPT ![p] = NoIdent]
    /\ saveErr' = [saveErr EXCEPT ![p] = FALSE]
    /\ reply' = r

\* lines 100-109: GetOrder, then the status check on the fetched copy.  The
\* check reads only the local copy, so it is one step with the read.
ApproveRead(p, id, dbOk) ==
    /\ pc[p] = "start"
    /\ IF ~(dbOk /\ HasOrder(orders, id))
       THEN Finish(p, JsonMsg("order not found", TRUE))
       ELSE IF ~IsReadyForApproval(GetOrder(orders, id).status)
       THEN Finish(p, JsonMsg("order not ready", FALSE))
       ELSE /\ cur' = [cur EXCEPT ![p] = Snapshot(GetOrder(orders, id))]
            /\ pc' = [pc EXCEPT ![p] = "provision"]
            /\ UNCHANGED <<ident, saveErr, reply>>
    /\ UNCHANGED <<orders, now, accounts, notifs>>
    /\ UNCHANGED <<inboundVars, customVars, served>>

ApproveGetOrder(p) == \E id \in ReqIds, dbOk \in BOOLEAN : ApproveRead(p, id, dbOk)

\* variant: the error of ProvisionOrder is not checked and the handler goes on
ApproveProvision_ErrIgnored(p) ==
    /\ pc[p] = "provision"
    /\ \E ok \in BOOLEAN :
        IF ok
        THEN /\ accounts' = [accounts EXCEPT ![cur[p].id] = @ + 1]
             /\ ident' = [ident EXCEPT ![p] = ProvisionOrder(cur[p], accounts'[cur[p].id])]
        ELSE /\ UNCHANGED <<accounts, ident>>
    /\ pc' = [pc EXCEPT ![p] = "save"]
    /\ UNCHANGED <<orders, now, notifs, cur, saveErr, reply>>
    /\ UNCHANGED <<inboundVars, customVars, served>>

\* lines 111-115: the Provisioner is invoked; it creates an account or errors
ApproveProvision(p) ==
    /\ pc[p] = "provision"
    /\ \E ok \in BOOLEAN :
        IF ok
        THEN /\ accounts' = [accounts EXCEPT ![cur[p].id] = @ + 1]
             /\ ident' = [ident EXCEPT ![p] = ProvisionOrder(cur[p], accounts'[cur[p].id])]
             /\ pc' = [pc EXCEPT ![p] = "save"]
             /\ UNCHANGED <<cur, saveErr, reply>>
        ELSE /\ Finish(p, JsonMsg("provision failed", TRUE))
             /\ UNCHANGED accounts
    /\ UNCHANGED <<orders, now, notifs>>
    /\ UNCHANGED <<inboundVars, customVars, served>>

\* lines 117-119: a failed store update is only logged
ApproveSetProvisioned(p) ==
    /\ pc[p] = "save"
    /\ \E dbOk \in BOOLEAN :
        IF dbOk
        THEN /\ orders' = SetOrderProvisioned(orders, cur[p].id, ident[p].email, ident[p].clientId, ident[p].subId, now)
             /\ saveErr' = [saveErr EXCEPT ![p] = FALSE]
        ELSE /\ orders' = orders
             /\ saveErr' = [saveErr EXCEPT ![p] = TRUE]
    /\ pc' = [pc EXCEPT ![p] = "notify"]
    /\ UNCHANGED <<now, cur, ident, reply, accounts, notifs>>
    /\ UNCHANGED <<inboundVars, customVars, served>>

\* lines 121-123: SendOrderFulfillment returns nothing; then "approved"
ApproveNotify(p) ==
    /\ pc[p] = "notify"
    /\ notifs' = notifs \cup {[to |-> cur[p].telegramId, email |-> ident[p].email]}
    /\ Finish(p, JsonMsg("approved", FALSE))
    /\ UNCHANGED <<orders, now, accounts>>
    /\ UNCHANGED <<inboundVars, customVars, served>>

\* ---- ShopController.rejectOrder (part_000:126-134) ----
\* The UPDATE matches zero rows for an unknown id and reports no error.
RejectStep(id, dbOk) ==
    /\ IF dbOk
       THEN /\ orders' = UpdateOrderStatus(orders, id, OrderStatusRejected, "", now)
            /\ reply' = JsonMsg("rejected", FALSE)
       ELSE /\ orders' = orders
            /\ reply' = JsonMsg("rejected", TRUE)
    /\ UNCHANGED <<now, pc, cur, ident, saveErr, accounts, notifs>>
    /\ UNCHANGED <<inboundVars, customVars, served>>

Reject(id) == \E dbOk \in BOOLEAN : RejectStep(id, dbOk)

\* ---- customer-side operations on the store ----
\* A statement that fails changes no row and these callers answer nobody, so
\* a failed CreateOrder or UpdateOrderReceipt is a stuttering step.
\* A new order starts in PENDING_RECEIPT with no receipt and no identity.
Create(tg) ==
    /\ Len(orders) < MaxOrders
    /\ orders' = CreateOrder(orders, NewOrder(Len(orders) + 1, tg), now)
    /\ UNCHANGED <<now, pc, cur, ident, saveErr, reply, accounts, notifs>>
    /\ UNCHANGED <<inboundVars, customVars, served>>

SubmitReceipt(id, receiptPath, receiptFileId) ==
    /\ orders' = UpdateOrderReceipt(orders, id, receiptPath, receiptFileId, now)
    /\ UNCHANGED <<now, pc, cur, ident, saveErr, reply, accounts, notifs>>
    /\ UNCHANGED <<inboundVars, customVars, served>>

\* time.Now() advances between requests
Tick ==
    /\ now < MaxClock
    /\ now' = now + 1
    /\ UNCHANGED <<orders, pc, cur, ident, saveErr, reply, accounts, notifs>>
    /\ UNCHANGED <<inboundVars, customVars, served>>

OrderInit ==
    /\ orders = <<>>
    /\ now = 0
    /\ pc = [p \in Approvers |-> "start"]
    /\ cur = [p \in Approvers |-> NoOrder]
    /\ ident = [p \in Approvers |-> NoIdent]
    /\ saveErr = [p \in Approvers |-> FALSE]
    /\ reply = NoResp
    /\ accounts = [o \in 1..MaxOrders |-> 0]
    /\ notifs = {}

\* ---------------------------------------------------------------------
\* Shop inbound visibility: web/service/shop.go 129-199
\* ---------------------------------------------------------------------

MaxInbounds == 2

InboundIds == 1..MaxInbounds

\* One-shot SetInboundEnabled requests (web/controller setInboundEnabled).
Setters == {"s1", "s2", "s3"}

\* A shop_inbounds row.  Its primary key is its index in shopInbounds (rows
\* are never deleted).  The table carries no uniqueness rule on inbound_id.
\* created_at / updated_at are written but never read and are not carried.
ShopInbound(inboundId, enabled) == [inboundId |-> inboundId, enabled |-> enabled]

RECURSIVE Perms(_)
Perms(S) ==
    IF S = {} THEN {<<>>}
    ELSE UNION {{<<x>> \o q : q \in Perms(S \ {x})} : x \in S}

\* What inboundService.GetAllInbounds can return: any set of inbounds, each
\* id once (primary key), in any order.
InboundLists == UNION {Perms(S) : S \in SUBSET InboundIds}

\* shop.go 138-141: enabledMap[item.InboundId] = item.Enabled, row by row, a
\* later row for the same inbound overwriting an earlier one.
RECURSIVE EnabledMap(_)
EnabledMap(rows) ==
    IF rows = <<>> THEN [i \in {} |-> FALSE]
    ELSE LET m == EnabledMap(SubSeq(rows, 1, Len(rows) - 1))
             item == rows[Len(rows)]
         IN [i \in (DOMAIN m) \cup {item.inboundId} |->
                IF i = item.inboundId THEN item.enabled ELSE m[i]]

\* enabledMap[inbound.Id]: a missing key reads as false.
MapGet(m, i) == IF i \in DOMAIN m THEN m[i] ELSE FALSE

\* sort.Slice(options, options[i].Id < options[j].Id): insertion of each
\* element before the first element with a larger id.
RECURSIVE InsertById(_, _)
InsertById(sorted, o) ==
    IF sorted = <<>> THEN <<o>>
    ELSE IF o.id < Head(sorted).id THEN <<o>> \o sorted
    ELSE <<Head(sorted)>> \o InsertById(Tail(sorted), o)

RECURSIVE SortById(_)
SortById(options) ==
    IF options = <<>> THEN <<>>
    ELSE InsertById(SortById(SubSeq(options, 1, Len(options) - 1)), options[Len(options)])

\* shop.go 129-166.  getOk: GetAllInbounds returned no error.  findOk: the
\* db.Find of the override rows returned no error; its error is dropped
\* (line 137) and the slice it did not fill stays empty.
\* Remark, protocol and port are copied from the inbound and not carried.
ListInbounds(inbounds, getOk, rows, findOk) ==
    IF ~getOk THEN [err |-> TRUE, options |-> <<>>]
    ELSE LET fetched == IF findOk THEN rows ELSE <<>>
             enabledMap == EnabledMap(fetched)
             useDefaultAll == Len(fetched) = 0
             options == [k \in 1..Len(inbounds) |->
                            [id |-> inbounds[k],
                             enabled |-> IF useDefaultAll THEN TRUE
                                         ELSE MapGet(enabledMap, inbounds[k])]]
         IN [err |-> FALSE, options |-> SortById(options)]

\* shop.go 193-197: a variant appending in front instead of at the end.
RECURSIVE EnabledIdsOf_Prepend(_)
EnabledIdsOf_Prepend(options) ==
    IF options = <<>> THEN <<>>
    ELSE EnabledIdsOf_Prepend(Tail(options))
         \o (IF Head(options).enabled THEN <<Head(options).id>> ELSE <<>>)

\* shop.go 192-197: ids of the enabled options, in the options' order.
RECURSIVE EnabledIdsOf(_)
EnabledIdsOf(options) ==
    IF options = <<>> THEN <<>>
    ELSE (IF Head(options).enabled THEN <<Head(options).id>> ELSE <<>>)
         \o EnabledIdsOf(Tail(options))

\* shop.go 187-199.
EnabledInboundIds(inbounds, getOk, rows, findOk) ==
    LET r == ListInbounds(inbounds, getOk, rows, findOk)
    IN IF r.err THEN [err |-> TRUE, ids |-> <<>>]
       ELSE [err |-> FALSE, ids |-> EnabledIdsOf(r.options)]

\* How lastSet records the enabled argument of a call.
SetValue(enabled) == IF enabled THEN "true" ELSE "false"

NoSet == [pc |-> "start", inboundId |-> 0, enabled |-> FALSE, existing |-> 0]

SetDone == [pc |-> "done", inboundId |-> 0, enabled |-> FALSE, existing |-> 0]

\* db.Where("inbound_id = ?", i).First(&existing): the matching row with the
\* smallest primary key, 0 for "record not found".
FirstRowFor(rows, i) ==
    LET hits == {k \in DOMAIN rows : rows[k].inboundId = i}
    IN IF hits = {} THEN 0 ELSE CHOOSE k \in hits : \A h \in hits : k <= h

\* shop.go 170-172: the lookup.  Any error (record not found, or the
\* statement failing) sends the request to the insert.
SetLookup(p, inboundId, enabled, dbOk) ==
    /\ setReq[p].pc = "start"
    /\ LET existing == IF dbOk THEN FirstRowFor(shopInbounds, inboundId) ELSE 0
       IN setReq' = [setReq EXCEPT ![p] =
                        [pc |-> IF existing # 0 THEN "update" ELSE "create",
                         inboundId |-> inboundId,
                         enabled |-> enabled,
                         existing |-> existing]]
    /\ UNCHANGED <<shopInbounds, lastSet>>
    /\ UNCHANGED <<orderVars, customVars, served>>

\* shop.go 173-177: Updates(enabled) WHERE id = existing.Id.
SetUpdate(p, dbOk) ==
    /\ setReq[p].pc = "update"
    /\ IF dbOk
       THEN /\ shopInbounds' = [shopInbounds EXCEPT ![setReq[p].existing].enabled = setReq[p].enabled]
            /\ lastSet' = [lastSet EXCEPT ![setReq[p].inboundId] = SetValue(setReq[p].enabled)]
       ELSE UNCHANGED <<shopInbounds, lastSet>>
    /\ setReq' = [setReq EXCEPT ![p] = SetDone]
    /\ UNCHANGED <<orderVars, customVars, served>>

\* shop.go 179-184: Create of a new row.
SetCreate(p, dbOk) ==
    /\ setReq[p].pc = "create"
    /\ IF dbOk
       THEN /\ shopInbounds' = Append(shopInbounds, ShopInbound(setReq[p].inboundId, setReq[p].enabled))
            /\ lastSet' = [lastSet EXCEPT ![setReq[p].inboundId] = SetValue(setReq[p].enabled)]
       ELSE UNCHANGED <<shopInbounds, lastSet>>
    /\ setReq' = [setReq EXCEPT ![p] = SetDone]
    /\ UNCHANGED <<orderVars, customVars, served>>

InboundInit ==
    /\ shopInbounds = <<>>
    /\ setReq = [p \in Setters |-> NoSet]
    /\ lastSet = [i \in InboundIds |-> "none"]

\* ---------------------------------------------------------------------
\* Custom orders: web/service/shop.go 201-231
\* ---------------------------------------------------------------------

\* Width of the machine integer the price is multiplied in, scaled down so
\* that products of the modelled values can leave it.
IntBits == 10

MinInt == -(2 ^ (IntBits - 1))

MaxInt == (2 ^ (IntBits - 1)) - 1

FitsInt(x) == MinInt <= x /\ x <= MaxInt

\* Two's-complement wrap-around of Go integer arithmetic.
WrapInt(x) == ((x - MinInt) % (2 ^ IntBits)) + MinInt

\* Values the settings and the customer's request are drawn from: unset
\* (zero), negative, and values on both sides of each other.
GbLimits == {-1, 0, 10, 100}

DayLimits == {0, 7, 365}

Rates == {-2, 0, 3, 6}

DataGBs == {-1, 0, 5, 10, 50, 100, 101}

DaysValues == {0, 6, 7, 30, 365, 400}

ErrDataLow == "data less than minimum allowed"

ErrDataHigh == "data greater than maximum allowed"

ErrDaysLow == "days less than minimum allowed"

ErrDaysHigh == "days greater than maximum allowed"

ErrSetting == "setting read failed"

NoErr == ""

ShopSettings(minGb, maxGb, minDays, maxDays, pricePerGb) ==
    [minGb |-> minGb, maxGb |-> maxGb, minDays |-> minDays, maxDays |-> maxDays,
     pricePerGb |-> pricePerGb]

\* shop.go 201-220, with the two day checks ahead of the two data checks.
ValidateCustomOrder_DaysFirst(s, dataGB, days) ==
    IF s.minDays > 0 /\ days < s.minDays THEN ErrDaysLow
    ELSE IF s.maxDays > 0 /\ days > s.maxDays THEN ErrDaysHigh
    ELSE IF s.minGb > 0 /\ dataGB < s.minGb THEN ErrDataLow
    ELSE IF s.maxGb > 0 /\ dataGB > s.maxGb THEN ErrDataHigh
    ELSE NoErr

\* shop.go 201-220.  The four getters' errors are dropped; s holds the
\* values they returned.
ValidateCustomOrder(s, dataGB, days) ==
    IF s.minGb > 0 /\ dataGB < s.minGb THEN ErrDataLow
    ELSE IF s.maxGb > 0 /\ dataGB > s.maxGb THEN ErrDataHigh
    ELSE IF s.minDays > 0 /\ days < s.minDays THEN ErrDaysLow
    ELSE IF s.maxDays > 0 /\ days > s.maxDays THEN ErrDaysHigh
    ELSE NoErr

\* shop.go 222-231.  readOk: GetShopPricePerGB returned no error.  The
\* product is formed in int and then converted to int64.
CalculateCustomPrice(s, dataGB, readOk) ==
    IF ~readOk THEN [price |-> 0, err |-> ErrSetting]
    ELSE LET pricePerGb == IF s.pricePerGb < 0 THEN 0 ELSE s.pricePerGb
         IN [price |-> WrapInt(dataGB * pricePerGb), err |-> NoErr]

NoQuote == [op |-> "none", dataGB |-> 0, days |-> 0, price |-> 0, err |-> NoErr]

Validate(dataGB, days) ==
    /\ quote' = [op |-> "validate", dataGB |-> dataGB, days |-> days, price |-> 0,
                 err |-> ValidateCustomOrder(settings, dataGB, days)]
    /\ UNCHANGED <<orderVars, inboundVars, settings, served>>

Price(dataGB, readOk) ==
    /\ LET r == CalculateCustomPrice(settings, dataGB, readOk)
       IN quote' = [op |-> "price", dataGB |-> dataGB, days |-> 0, price |-> r.price,
                    err |-> r.err]
    /\ UNCHANGED <<orderVars, inboundVars, settings, served>>

\* ---------------------------------------------------------------------
\* Receipt serving: web/controller getReceipt (part_000 158-175)
\* ---------------------------------------------------------------------

MaxPathLen == 3

\* Path components: the parent reference, the receipt directory, a file or
\* directory of any other name.
Names == {"..", "receipts", "f"}

\* A path string: a leading separator or not, then its components.
Paths == {[abs |-> a, parts |-> q] :
             a \in BOOLEAN, q \in UNION {[1..k -> Names] : k \in 0..MaxPathLen}}

\* The empty string.
EmptyPath == [abs |-> FALSE, parts |-> <<>>]

\* filepath.Clean, component by component: ".." removes the component
\* before it, is dropped at the root of a rooted path and is kept at the
\* start of a relative one.
RECURSIVE CleanParts(_, _, _)
CleanParts(abs, kept, rest) ==
    IF rest = <<>> THEN kept
    ELSE IF Head(rest) # ".." THEN CleanParts(abs, Append(kept, Head(rest)), Tail(rest))
    ELSE IF kept # <<>> /\ kept[Len(kept)] # ".."
         THEN CleanParts(abs, SubSeq(kept, 1, Len(kept) - 1), Tail(rest))
    ELSE IF abs THEN CleanParts(abs, kept, Tail(rest))
    ELSE CleanParts(abs, Append(kept, ".."), Tail(rest))

Clean(p) == [abs |-> p.abs, parts |-> CleanParts(p.abs, <<>>, p.parts)]

\* The directory the process runs in (the filesystem root), against which
\* c.File opens a relative path.
WorkDir == <<>>

\* The designated receipt storage root, as a rooted path.
ReceiptRoot == <<"receipts">>

\* The file a path names once opened: rooted components, no "..".
Resolve(p) == CleanParts(TRUE, <<>>, IF p.abs THEN p.parts ELSE WorkDir \o p.parts)

WithinRoot(p) ==
    /\ Len(Resolve(p)) > Len(ReceiptRoot)
    /\ SubSeq(Resolve(p), 1, Len(ReceiptRoot)) = ReceiptRoot

NoResponse == [status |-> 0, path |-> EmptyPath]

Response(status, path) == [status |-> status, path |-> path]

\* part_000 158-175.  parseOk: Atoi accepted :id.  dbOk: the order read did
\* not fail.  statOk: os.Stat found the cleaned path.
getReceipt(parseOk, id, dbOk, statOk) ==
    /\ served' =
          IF ~parseOk THEN Response(400, EmptyPath)
          ELSE IF ~dbOk \/ ~HasOrder(orders, id) THEN Response(404, EmptyPath)
          ELSE IF GetOrder(orders, id).receiptPath = EmptyPath THEN Response(404, EmptyPath)
          ELSE IF ~statOk THEN Response(404, EmptyPath)
          ELSE Response(200, Clean(GetOrder(orders, id).receiptPath))
    /\ UNCHANGED <<orderVars, inboundVars, customVars>>

Init ==
    /\ OrderInit
    /\ InboundInit
    /\ settings = ShopSettings(0, 0, 0, 0, 0)
    /\ quote = NoQuote
    /\ served = NoResponse

InitCustom ==
    /\ OrderInit
    /\ InboundInit
    /\ settings \in {ShopSettings(a, b, c, e, r) :
                        a \in GbLimits, b \in GbLimits, c \in DayLimits, e \in DayLimits, r \in Rates}
    /\ quote = NoQuote
    /\ served = NoResponse

\* One order awaiting its receipt; receipt paths are path values here.
InitReceipt ==
    /\ orders = <<[NewOrder(1, "tg1") EXCEPT !.receiptPath = EmptyPath]>>
    /\ now = 0
    /\ pc = [p \in Approvers |-> "start"]
    /\ cur = [p \in Approvers |-> NoOrder]
    /\ ident = [p \in Approvers |-> NoIdent]
    /\ saveErr = [p \in Approvers |-> FALSE]
    /\ reply = NoResp
    /\ accounts = [o \in 1..MaxOrders |-> 0]
    /\ notifs = {}
    /\ InboundInit
    /\ settings = ShopSettings(0, 0, 0, 0, 0)
    /\ quote = NoQuote
    /\ served = NoResponse

NextReceipt ==
    \/ \E id \in ReqIds, path \in Paths \ {EmptyPath} : SubmitReceipt(id, path, "f1")
    \/ \E parseOk \in BOOLEAN, id \in ReqIds, dbOk \in BOOLEAN, statOk \in BOOLEAN :
          getReceipt(parseOk, id, dbOk, statOk)

SpecReceipt == InitReceipt /\ [][NextReceipt]_vars

NextCustom ==
    \/ \E dataGB \in DataGBs, days \in DaysValues : Validate(dataGB, days)
    \/ \E dataGB \in DataGBs, readOk \in BOOLEAN : Price(dataGB, readOk)

SpecCustom == InitCustom /\ [][NextCustom]_vars

NextInbound ==
    \/ \E p \in Setters, i \in InboundIds, e \in BOOLEAN, dbOk \in BOOLEAN : SetLookup(p, i, e, dbOk)
    \/ \E p \in Setters, dbOk \in BOOLEAN : SetUpdate(p, dbOk)
    \/ \E p \in Setters, dbOk \in BOOLEAN : SetCreate(p, dbOk)

SpecInbound == Init /\ [][NextInbound]_vars

Next ==
    \/ \E p \in Approvers : ApproveGetOrder(p)
    \/ \E p \in Approvers : ApproveProvision(p)
    \/ \E p \in Approvers : ApproveSetProvisioned(p)
    \/ \E p \in Approvers : ApproveNotify(p)
    \/ \E id \in ReqIds : Reject(id)
    \/ \E tg \in Customers : Create(tg)
    \/ \E id \in ReqIds, r \in Receipts : SubmitReceipt(id, r[1], r[2])
    \/ Tick

Spec == Init /\ [][Next]_vars

\* ---- vocabulary of the claims ----
Terminal(status) == status \in {OrderStatusApproved, OrderStatusRejected}

IdentityEmpty(order) ==
    order.clientEmail = EmptyStr /\ order.clientId = EmptyStr /\ order.clientSubId = EmptyStr

IdentityFull(order) ==
    order.clientEmail # EmptyStr /\ order.clientId # EmptyStr /\ order.clientSubId # EmptyStr

HasIdentity(order, t) ==
    order.clientEmail = t.email /\ order.clientId = t.clientId /\ order.clientSubId = t.subId

\* p holds an identity the Provisioner returned and has not yet answered
HasProvisioned(p) == pc[p] \in {"save", "notify"}

\* the step in which p's SetOrderProvisioned returns, with or without error
SaveReturns(p) == pc[p] = "save" /\ pc'[p] = "notify"

\* the step in which p requests the notification and answers
NotifyReturns(p) == pc[p] = "notify" /\ pc'[p] = "done"

\* C1: two concurrent Approve calls on the same PENDING_REVIEW order never
\* both obtain an account from the Provisioner (one invocation only).
C1_ConcurrentApproveProvisionsOnce ==
    \A p, q \in Approvers :
        (p # q /\ HasProvisioned(p) /\ HasProvisioned(q)) => cur[p].id # cur[q].id

\* C2: every order's status is one of the four values and its identity
\* fields are all empty unless its status is APPROVED.
C2_IdentityOnlyWhenApproved ==
    \A o \in DOMAIN orders :
        /\ orders[o].status \in Statuses
        /\ orders[o].status # OrderStatusApproved => IdentityEmpty(orders[o])

\* C3: once an order is APPROVED or REJECTED no step changes its status.
C3_TerminalStatusIsFinal ==
    [][\A o \in DOMAIN orders :
          Terminal(orders[o].status) => orders'[o].status = orders[o].status]_vars

C5_AtMostOneAccountPerOrder ==
    \A o \in DOMAIN accounts : accounts[o] <= 1

\* C6: when the Provisioner succeeded and SetOrderProvisioned failed, the
\* store is left as it was and the answer is a failure, not "approved".
C6_PartialFailureReportedAsFailed ==
    [][\A p \in Approvers :
          /\ (SaveReturns(p) /\ saveErr'[p]) => orders' = orders
          /\ (NotifyReturns(p) /\ saveErr[p])
                => (reply'.err /\ reply'.msg # "approved")]_vars

\* C7: an APPROVED order carries, in all three identity fields, a non-empty
\* triple that the Provisioner returned for that order; and a successful
\* SetOrderProvisioned leaves the order APPROVED with exactly the caller's triple.
C7_ApprovedCarriesProvisionedIdentity ==
    /\ [](\A o \in DOMAIN orders :
            orders[o].status = OrderStatusApproved
            => (/\ IdentityFull(orders[o])
                /\ \E n \in 1..accounts[o] : HasIdentity(orders[o], ProvisionOrder(orders[o], n))))
    /\ [][\A p \in Approvers :
            (SaveReturns(p) /\ ~saveErr'[p])
            => (/\ orders'[cur[p].id].status = OrderStatusApproved
                /\ HasIdentity(orders'[cur[p].id], ident[p]))]_vars

\* C7 witness: an approver has just stored its triple and the order is APPROVED.
C7_Witness ==
    \E p \in Approvers :
        /\ pc[p] = "notify"
        /\ ~saveErr[p]
        /\ orders[cur[p].id].status = OrderStatusApproved
        /\ HasIdentity(orders[cur[p].id], ident[p])
        /\ IdentityFull(orders[cur[p].id])

\* C8: a notification is requested only by an approval whose identity was
\* persisted, and requesting it changes neither the store nor the answer
\* "approved".
C8_NotifyOnlyAfterPersisted ==
    [][\A p \in Approvers :
          (NotifyReturns(p) /\ notifs' # notifs)
          => (/\ ~saveErr[p]
              /\ orders' = orders
              /\ reply' = JsonMsg("approved", FALSE))]_vars

C10_RejectRequiresExistingOrder ==
    [][\A id \in ReqIds :
          RejectStep(id, TRUE)
          => IF HasOrder(orders, id)
             THEN orders'[id].status = OrderStatusRejected
             ELSE orders' = orders /\ reply'.err /\ reply'.msg # "rejected"]_vars

\* the step in which p's ProvisionOrder returns an error: p leaves the
\* Provisioner call and no account was created
ProvisionFails(p) == pc[p] = "provision" /\ pc'[p] # "provision" /\ accounts' = accounts

\* C17: when the Provisioner errors, the request ends at once with the
\* failure "provision failed"; it updates no order (an order in
\* PENDING_REVIEW with empty identity stays so) and requests no notification.
C17_ProvisionErrorIsReportedAndChangesNothing ==
    [][\A p \in Approvers :
          ProvisionFails(p)
          => (/\ pc'[p] = "done"
              /\ reply' = JsonMsg("provision failed", TRUE)
              /\ orders' = orders
              /\ notifs' = notifs
              /\ \A o \in DOMAIN orders :
                    (orders[o].status = OrderStatusPendingReview /\ IdentityEmpty(orders[o]))
                    => (orders'[o].status = OrderStatusPendingReview /\ IdentityEmpty(orders'[o])))]_vars

\* C17 witness: a request was answered "provision failed"; the order is in
\* PENDING_REVIEW with empty identity, no account exists, nobody was notified.
C17_Witness ==
    /\ Len(orders) >= 1
    /\ orders[1].status = OrderStatusPendingReview
    /\ IdentityEmpty(orders[1])
    /\ accounts[1] = 0
    /\ notifs = {}
    /\ reply = JsonMsg("provision failed", TRUE)
    /\ \E p \in Approvers : pc[p] = "done"

\* C18: the write of an in-flight Approve takes effect only if the order is
\* still in PENDING_REVIEW at that moment; in particular an order that a
\* Reject has meanwhile set to REJECTED is not overwritten to APPROVED.
C18_ApproveWriteIsConditional ==
    [][\A p \in Approvers :
          (SaveReturns(p) /\ orders[cur[p].id].status # OrderStatusPendingReview)
          => orders'[cur[p].id] = orders[cur[p].id]]_vars

\* ---------------------------------------------------------------------
\* Inbound visibility claims
\* ---------------------------------------------------------------------

\* The option ListInbounds returns for inbound i (reads succeeding).
ListedEnabled(inbounds, rows, findOk, i) ==
    \E k \in DOMAIN ListInbounds(inbounds, TRUE, rows, findOk).options :
        /\ ListInbounds(inbounds, TRUE, rows, findOk).options[k].id = i
        /\ ListInbounds(inbounds, TRUE, rows, findOk).options[k].enabled

Range(seq) == {seq[k] : k \in DOMAIN seq}

\* C11: with both reads succeeding, ListInbounds returns one entry per
\* configured inbound; with an empty override table every inbound is
\* enabled, otherwise an inbound is enabled if and only if some override row
\* for it has enabled = true.
C11_ListInboundsPolicy ==
    \A inbounds \in InboundLists :
        LET r == ListInbounds(inbounds, TRUE, shopInbounds, TRUE)
        IN /\ ~r.err
           /\ Len(r.options) = Len(inbounds)
           /\ {o.id : o \in Range(r.options)} = Range(inbounds)
           /\ \A o \in Range(r.options) :
                  o.enabled <=> (\/ shopInbounds = <<>>
                                 \/ \E row \in Range(shopInbounds) :
                                        row.inboundId = o.id /\ row.enabled)

\* C12: once any SetInboundEnabled call has returned without error,
\* ListInbounds reports inbound j enabled exactly when the last such call
\* for j had enabled = true (an inbound never set is disabled).
C12_LastSetDetermines ==
    (\E j \in InboundIds : lastSet[j] # "none")
    => \A inbounds \in InboundLists : \A j \in Range(inbounds) :
           ListedEnabled(inbounds, shopInbounds, TRUE, j) <=> (lastSet[j] = "true")

\* C16: on the same state and the same read outcomes, EnabledInboundIds
\* fails exactly when ListInbounds fails, and otherwise returns the ids of
\* exactly the options ListInbounds marks enabled, in ascending order of id.
C16_EnabledIdsMatchListing ==
    \A inbounds \in InboundLists, getOk \in BOOLEAN, findOk \in BOOLEAN :
        LET l == ListInbounds(inbounds, getOk, shopInbounds, findOk)
            e == EnabledInboundIds(inbounds, getOk, shopInbounds, findOk)
        IN /\ e.err = l.err
           /\ ~l.err =>
                 /\ Range(e.ids) = {o.id : o \in {x \in Range(l.options) : x.enabled}}
                 /\ \A a, b \in DOMAIN e.ids : a < b => e.ids[a] < e.ids[b]
                 /\ \A a, b \in DOMAIN l.options : a < b => l.options[a].id < l.options[b].id

\* The table holds an enabled and a disabled override, so that the listing
\* has entries of both kinds to select from.
C16_Witness ==
    /\ \E row \in Range(shopInbounds) : row.enabled
    /\ \E row \in Range(shopInbounds) : ~row.enabled
    /\ \E inbounds \in InboundLists :
          /\ Len(inbounds) = MaxInbounds
          /\ inbounds[1] > inbounds[2]
          /\ Len(EnabledInboundIds(inbounds, TRUE, shopInbounds, TRUE).ids) >= 1
          /\ Len(EnabledInboundIds(inbounds, TRUE, shopInbounds, FALSE).ids) = MaxInbounds

\* C19: the override table never holds two rows for the same inbound id.
C19_OneRowPerInbound ==
    \A a, b \in DOMAIN shopInbounds :
        shopInbounds[a].inboundId = shopInbounds[b].inboundId => a = b

\* C20: ListInbounds never reports as enabled an inbound that has an
\* override row with enabled = false, whether or not the read of the
\* override rows succeeds.
C20_DisabledOverrideNeverListedEnabled ==
    \A inbounds \in InboundLists, findOk \in BOOLEAN :
        \A row \in Range(shopInbounds) :
            ~row.enabled => ~ListedEnabled(inbounds, shopInbounds, findOk, row.inboundId)

\* ---------------------------------------------------------------------
\* Custom order claims
\* ---------------------------------------------------------------------

\* C13: with the rate read successfully and the product within the integer
\* width, CalculateCustomPrice never returns a negative price for any
\* dataGB, and for the (clamped) rate it is non-decreasing in dataGB.
C13_PriceNonNegativeAndMonotone ==
    LET rate == IF settings.pricePerGb < 0 THEN 0 ELSE settings.pricePerGb
        price(g) == CalculateCustomPrice(settings, g, TRUE).price
    IN /\ \A g \in DataGBs : FitsInt(g * rate) => price(g) >= 0
       /\ \A g, h \in DataGBs :
             (g <= h /\ FitsInt(g * rate) /\ FitsInt(h * rate)) => price(g) <= price(h)

DataLow(s, dataGB) == s.minGb > 0 /\ dataGB < s.minGb

DataHigh(s, dataGB) == s.maxGb > 0 /\ dataGB > s.maxGb

DaysLow(s, days) == s.minDays > 0 /\ days < s.minDays

DaysHigh(s, days) == s.maxDays > 0 /\ days > s.maxDays

C14_ValidateOutcome ==
    /\ Cardinality({NoErr, ErrDataLow, ErrDataHigh, ErrDaysLow, ErrDaysHigh}) = 5
    /\ \A dataGB \in DataGBs, days \in DaysValues :
          LET e == ValidateCustomOrder(settings, dataGB, days)
              lowGb == DataLow(settings, dataGB)
              highGb == DataHigh(settings, dataGB)
              lowDays == DaysLow(settings, days)
              highDays == DaysHigh(settings, days)
          IN /\ (e = NoErr) <=> ~(lowGb \/ highGb \/ lowDays \/ highDays)
             /\ lowGb => e = ErrDataLow
             /\ (~lowGb /\ highGb) => e = ErrDataHigh
             /\ (~lowGb /\ ~highGb /\ lowDays) => e = ErrDaysLow
             /\ (~lowGb /\ ~highGb /\ ~lowDays /\ highDays) => e = ErrDaysHigh
    /\ settings = ShopSettings(10, 100, 7, 365, settings.pricePerGb)
          => /\ ValidateCustomOrder(settings, 5, 30) = ErrDataLow
             /\ ValidateCustomOrder(settings, 50, 400) = ErrDaysHigh
             /\ ValidateCustomOrder(settings, 50, 30) = NoErr

C14_ValidateFrame ==
    (quote'.op = "validate") => UNCHANGED <<orderVars, inboundVars, settings, served>>

\* C14: ValidateCustomOrder succeeds exactly when every positive configured
\* bound is satisfied; otherwise it returns the reason of the first violated
\* check in the order data-too-low, data-too-high, days-too-low,
\* days-too-high, the four reasons and success being pairwise different; and
\* a call changes nothing but the answer it gives.
C14_ValidateCustomOrder == []C14_ValidateOutcome /\ [][C14_ValidateFrame]_vars

\* A request rejected for days with the data in range, under the bounds
\* GB 10..100 and days 7..365.
C14_Witness ==
    /\ settings.minGb = 10 /\ settings.maxGb = 100
    /\ settings.minDays = 7 /\ settings.maxDays = 365
    /\ quote.op = "validate" /\ quote.dataGB = 50 /\ quote.days = 400
    /\ quote.err = ErrDaysHigh

\* ---------------------------------------------------------------------
\* Receipt serving claim
\* ---------------------------------------------------------------------

\* C15: whatever receipt path is stored on an order, a file is served only
\* if its resolved path lies within the receipt storage root.
C15_ServedWithinReceiptRoot ==
    served.status = 200 => WithinRoot(served.path)
====
